---------------------------- MODULE Spec2Model ----------------------------
(***************************************************************************)
(* Model of the rustafari community graph: the in-memory store of          *)
(* src/src/graph.rs (CommunityGraph, User, Connection, the recommendation  *)
(* heuristic) and the mutex-guarded handlers of src/src/routes.rs.         *)
(*                                                                         *)
(* Representation:                                                         *)
(*   String          a TLA+ string                                        *)
(*   Option<String>  <<>> for None, <<s>> for Some(s)                      *)
(*   Vec<T>          a sequence                                            *)
(*   HashSet<T>      a set; a Vec collected from a HashSet iterator has an *)
(*                   unspecified order and is kept as a bag (element ->    *)
(*                   number of occurrences), its length the bag's size     *)
(*   HashMap<K,V>    a function whose domain is the set of keys; an        *)
(*                   iteration over it visits the keys in an order the     *)
(*                   hasher decides, drawn here from all permutations      *)
(*   Result<T,E>     [ok |-> TRUE, value |-> v] or [ok |-> FALSE, err |-> e]*)
(* usize arithmetic is 64 bit; the lengths of this model stay far below    *)
(* the width, so len() * 2 never wraps.                                    *)
(***************************************************************************)
EXTENDS Naturals, Sequences, FiniteSets, Bags, TLC

VARIABLES
    members,          \* CommunityGraph.members: username -> User
    result,           \* the last direct call of a CommunityGraph method
    lock,             \* the Mutex around the graph: holder (0: none), poisoned
    pc,               \* each handler task's position
    req,              \* each handler task's decoded request
    ret,              \* each handler task's local `result`
    arrived,          \* number of requests received so far
    serial,           \* history: the graph after the requests that took the
                      \*   lock so far, each applied whole, in lock order
    expected,         \* history: what a request applied whole at the moment
                      \*   it took the lock may return
    absentOnArrival   \* history: an add_user request's username was not in
                      \*   the graph when the request arrived

srv == <<lock, pc, req, ret, arrived, serial, expected, absentOnArrival>>

vars == <<members, result, lock, pc, req, ret, arrived, serial, expected,
          absentOnArrival>>

(***************************************************************************)
(* Bounds and input sets                                                   *)
(***************************************************************************)
\* Total number of Connection records the store may hold in the model.
MaxConns == 2

Names == {"alice", "bob", "carol"}

\* The NewUser payloads the clients send: for every name two profiles, among
\* them an empty bio, a repeated interest, interests that differ only in
\* case, and lists that share 0, 2 or 4 interests.
NewUsers ==
    { [username |-> "alice", bio |-> <<>>,
       interests |-> <<"rust", "wasm", "async", "cli">>],
      [username |-> "alice", bio |-> <<"hi">>, interests |-> <<"Rust">>],
      [username |-> "bob", bio |-> <<"hi">>,
       interests |-> <<"rust", "rust", "wasm">>],
      [username |-> "bob", bio |-> <<>>,
       interests |-> <<"cli", "async", "wasm", "rust">>],
      [username |-> "carol", bio |-> <<>>,
       interests |-> <<"rust", "wasm", "async", "cli">>],
      [username |-> "carol", bio |-> <<"rustacean">>, interests |-> <<"rust">>] }

QueryInterests == {"rust", "Rust", "go"}

\* The ConnectPayload bodies the clients send: every ordered pair of names
\* (self-connections included), and two pairs with a second label.
ConnectPayloads ==
    { [from |-> f, to |-> t, kind |-> "Mentor", tags |-> <<>>, since |-> "2023"] :
          f \in Names, t \in Names }
    \cup
    { [from |-> "alice", to |-> "bob", kind |-> "ProjectBuddy",
       tags |-> <<"oss", "cli">>, since |-> "2024-05"],
      [from |-> "bob", to |-> "carol", kind |-> "Follower",
       tags |-> <<"cli">>, since |-> "last week"] }

(***************************************************************************)
(* Generic helpers                                                         *)
(***************************************************************************)
Range(s) == {s[i] : i \in DOMAIN s}

\* Every order in which an iterator may visit the elements of S.
Perms(S) == {f \in [1..Cardinality(S) -> S] : Range(f) = S}

Ok(v) == [ok |-> TRUE, value |-> v]

Err(e) == [ok |-> FALSE, err |-> e]

Unit == <<>>

(***************************************************************************)
(* errors.rs                                                               *)
(***************************************************************************)
UserNotFound(username) == [kind |-> "UserNotFound", arg |-> username]

UserAlreadyExists(username) == [kind |-> "UserAlreadyExists", arg |-> username]

ConnectionFailed(from, to) == [kind |-> "ConnectionFailed", arg |-> <<from, to>>]

(***************************************************************************)
(* graph.rs: User                                                          *)
(***************************************************************************)
UserNew(username, bio, interests) ==
    [username |-> username, bio |-> bio, interests |-> interests,
     connections |-> <<>>]

\* add_connection that puts the new entry in front.
add_connection_prepends(user, connection) ==
    [user EXCEPT !.connections = <<connection>> \o @]

add_connection(user, connection) ==
    [user EXCEPT !.connections = Append(@, connection)]

RECURSIVE SeqToBag(_)
SeqToBag(seq) ==
    IF seq = <<>> THEN EmptyBag
    ELSE SeqToBag(Tail(seq)) (+) SetToBag({Head(seq)})

\* The common interests filtered out of self's Vec: one entry per occurrence.
has_similar_interests_keeps_duplicates(self, other) ==
    LET their_interests == Range(other.interests)
        in_theirs(i) == i \in their_interests
    IN SeqToBag(SelectSeq(self.interests, in_theirs))

\* HashSet intersection collected into a Vec: each common element once.
has_similar_interests(self, other) ==
    LET my_interests == Range(self.interests)
        their_interests == Range(other.interests)
    IN SetToBag(my_interests \cap their_interests)

(***************************************************************************)
(* graph.rs: HashMap primitives used by CommunityGraph                     *)
(***************************************************************************)
contains_key(m, k) == k \in DOMAIN m

\* HashMap::insert: adds the key, or replaces the value of a present key.
insert(m, k, v) == [n \in (DOMAIN m) \cup {k} |-> IF n = k THEN v ELSE m[n]]

(***************************************************************************)
(* graph.rs: CommunityGraph                                                *)
(* Mutating operations return the new map and the call's result.           *)
(***************************************************************************)
CommunityGraphNew == [n \in {} |-> n]

\* add_user without the existence check: a present key is overwritten.
add_user_overwrites(m, user) ==
    [members |-> insert(m, user.username, user), ret |-> Ok(Unit)]

\* add_user that stores the profile without its bio.
add_user_drops_bio(m, user) ==
    IF contains_key(m, user.username)
    THEN [members |-> m, ret |-> Err(UserAlreadyExists(user.username))]
    ELSE [members |-> insert(m, user.username, [user EXCEPT !.bio = <<>>]),
          ret |-> Ok(Unit)]

add_user(m, user) ==
    IF contains_key(m, user.username)
    THEN [members |-> m, ret |-> Err(UserAlreadyExists(user.username))]
    ELSE [members |-> insert(m, user.username, user), ret |-> Ok(Unit)]

\* connect_users that validates `from` only.
connect_users_unchecked_to(m, from, to, kind, tags, since) ==
    IF ~contains_key(m, from)
    THEN [members |-> m, ret |-> Err(UserNotFound(from))]
    ELSE [members |-> [m EXCEPT ![from] = add_connection(@,
                          [to_username |-> to, kind |-> kind, since |-> since,
                           tags |-> tags])],
          ret |-> Ok(Unit)]

\* connect_users that pushes the connection before it validates `to`.
connect_users_pushes_before_checking_to(m, from, to, kind, tags, since) ==
    IF ~contains_key(m, from)
    THEN [members |-> m, ret |-> Err(UserNotFound(from))]
    ELSE LET pushed == [m EXCEPT ![from] = add_connection(@,
                           [to_username |-> to, kind |-> kind, since |-> since,
                            tags |-> tags])]
         IN IF ~contains_key(m, to)
            THEN [members |-> pushed, ret |-> Err(UserNotFound(to))]
            ELSE [members |-> pushed, ret |-> Ok(Unit)]

\* connect_users that refuses a connection of a user to itself.
connect_users_rejects_self(m, from, to, kind, tags, since) ==
    IF ~contains_key(m, from)
    THEN [members |-> m, ret |-> Err(UserNotFound(from))]
    ELSE IF ~contains_key(m, to)
    THEN [members |-> m, ret |-> Err(UserNotFound(to))]
    ELSE IF from = to
    THEN [members |-> m, ret |-> Err(ConnectionFailed(from, to))]
    ELSE [members |-> [m EXCEPT ![from] = add_connection(@,
                          [to_username |-> to, kind |-> kind, since |-> since,
                           tags |-> tags])],
          ret |-> Ok(Unit)]

\* connect_users that validates `to` before `from`.
connect_users_checks_to_first(m, from, to, kind, tags, since) ==
    IF ~contains_key(m, to)
    THEN [members |-> m, ret |-> Err(UserNotFound(to))]
    ELSE IF ~contains_key(m, from)
    THEN [members |-> m, ret |-> Err(UserNotFound(from))]
    ELSE [members |-> [m EXCEPT ![from] = add_connection(@,
                          [to_username |-> to, kind |-> kind, since |-> since,
                           tags |-> tags])],
          ret |-> Ok(Unit)]

\* connect_users that also records the reverse edge on `to`.
connect_users_bidirectional(m, from, to, kind, tags, since) ==
    IF ~contains_key(m, from)
    THEN [members |-> m, ret |-> Err(UserNotFound(from))]
    ELSE IF ~contains_key(m, to)
    THEN [members |-> m, ret |-> Err(UserNotFound(to))]
    ELSE LET fwd == [to_username |-> to, kind |-> kind, since |-> since, tags |-> tags]
             rev == [to_username |-> from, kind |-> kind, since |-> since, tags |-> tags]
             m1 == [m EXCEPT ![from] = add_connection(@, fwd)]
         IN [members |-> [m1 EXCEPT ![to] = add_connection(@, rev)],
             ret |-> Ok(Unit)]

connect_users(m, from, to, kind, tags, since) ==
    IF ~contains_key(m, from)
    THEN [members |-> m, ret |-> Err(UserNotFound(from))]
    ELSE IF ~contains_key(m, to)
    THEN [members |-> m, ret |-> Err(UserNotFound(to))]
    ELSE LET connection ==
                 [to_username |-> to, kind |-> kind, since |-> since, tags |-> tags]
         IN IF from \in DOMAIN m
            THEN [members |-> [m EXCEPT ![from] = add_connection(@, connection)],
                  ret |-> Ok(Unit)]
            ELSE [members |-> m, ret |-> Err(ConnectionFailed(from, to))]

\* get_user whose error does not carry the name asked for.
get_user_unnamed_error(m, username) ==
    IF username \in DOMAIN m THEN Ok(m[username]) ELSE Err(UserNotFound(""))

get_user(m, username) ==
    IF username \in DOMAIN m THEN Ok(m[username]) ELSE Err(UserNotFound(username))

\* ASCII lower case of the interest strings of the model.
ToLower(str) == IF str = "Rust" THEN "rust" ELSE str

\* find_users_by_interest comparing without regard to case.
find_users_by_interest_ignores_case(m, interest, iter) ==
    LET matches(name) == \E i \in DOMAIN m[name].interests :
                             ToLower(m[name].interests[i]) = ToLower(interest)
        kept == SelectSeq(iter, matches)
    IN [i \in DOMAIN kept |-> m[kept[i]]]

\* iter: the order in which members.values() yields the users (by key).
find_users_by_interest(m, interest, iter) ==
    LET matches(name) == \E i \in DOMAIN m[name].interests :
                             m[name].interests[i] = interest
        kept == SelectSeq(iter, matches)
    IN [i \in DOMAIN kept |-> m[kept[i]]]


\* sort_by with the comparison the other way round: ascending counts.
RECURSIVE sort_by_shared_asc(_)
sort_by_shared_asc(recs) ==
    IF recs = <<>> THEN <<>>
    ELSE LET n == Len(recs)
             x == recs[n]
             front == sort_by_shared_asc(SubSeq(recs, 1, n - 1))
             idx == Cardinality({i \in DOMAIN front :
                        BagCardinality(front[i].shared_interests)
                            <= BagCardinality(x.shared_interests)})
         IN SubSeq(front, 1, idx) \o <<x>> \o SubSeq(front, idx + 1, Len(front))

RECURSIVE sort_by_shared_desc(_)
\* Vec::sort_by(|a, b| b.shared_interests.len().cmp(&a.shared_interests.len())):
\* a stable sort, so records with equal counts keep their relative order.
sort_by_shared_desc(recs) ==
    IF recs = <<>> THEN <<>>
    ELSE LET n == Len(recs)
             x == recs[n]
             front == sort_by_shared_desc(SubSeq(recs, 1, n - 1))
             idx == Cardinality({i \in DOMAIN front :
                        BagCardinality(front[i].shared_interests)
                            >= BagCardinality(x.shared_interests)})
         IN SubSeq(front, 1, idx) \o <<x>> \o SubSeq(front, idx + 1, Len(front))

\* The heuristic with the connection counts compared before the interests.
recommend_connection_type_counts_first(user, other) ==
    LET shared_interests == has_similar_interests(user, other)
    IN IF Len(other.connections) > Len(user.connections) * 2 THEN "Mentor"
       ELSE IF Len(user.connections) > Len(other.connections) * 2 THEN "Follower"
       ELSE IF BagCardinality(shared_interests) > 3 THEN "ProjectBuddy"
       ELSE "Collaborator"

\* The heuristic with Mentor suggested from exactly twice the subject's
\* connection count on (>= where the source compares with >).
recommend_connection_type_mentor_at_double(user, other) ==
    LET shared_interests == has_similar_interests(user, other)
    IN IF BagCardinality(shared_interests) > 3 THEN "ProjectBuddy"
       ELSE IF Len(other.connections) >= Len(user.connections) * 2 THEN "Mentor"
       ELSE IF Len(user.connections) > Len(other.connections) * 2 THEN "Follower"
       ELSE "Collaborator"

recommend_connection_type(user, other) ==
    LET shared_interests == has_similar_interests(user, other)
    IN IF BagCardinality(shared_interests) > 3 THEN "ProjectBuddy"
       ELSE IF Len(other.connections) > Len(user.connections) * 2 THEN "Mentor"
       ELSE IF Len(user.connections) > Len(other.connections) * 2 THEN "Follower"
       ELSE "Collaborator"

\* recommend_connections that skips the subject but not the users the
\* subject is already connected to.
recommend_connections_keeps_connected(m, username, iter) ==
    IF ~(get_user(m, username).ok) THEN Err(UserNotFound(username))
    ELSE LET user == get_user(m, username).value
             emitted(other_name) ==
                 /\ other_name # username
                 /\ BagCardinality(has_similar_interests(user, m[other_name])) # 0
             kept == SelectSeq(iter, emitted)
             recommendations ==
                 [i \in DOMAIN kept |->
                     [username |-> kept[i],
                      shared_interests |-> has_similar_interests(user, m[kept[i]]),
                      connection_type |-> recommend_connection_type(user, m[kept[i]])]]
         IN Ok(sort_by_shared_desc(recommendations))

\* iter: the order in which members.iter() yields the entries (by key).
recommend_connections(m, username, iter) ==
    IF ~(get_user(m, username).ok) THEN get_user(m, username)
    ELSE LET user == get_user(m, username).value
             connected_users == {user.connections[i].to_username :
                                     i \in DOMAIN user.connections}
             emitted(other_name) ==
                 /\ ~(other_name = username \/ other_name \in connected_users)
                 /\ BagCardinality(has_similar_interests(user, m[other_name])) # 0
             kept == SelectSeq(iter, emitted)
             recommendations ==
                 [i \in DOMAIN kept |->
                     [username |-> kept[i],
                      shared_interests |-> has_similar_interests(user, m[kept[i]]),
                      connection_type |-> recommend_connection_type(user, m[kept[i]])]]
         IN Ok(sort_by_shared_desc(recommendations))

(***************************************************************************)
(* The store as a state machine: one action per CommunityGraph operation.  *)
(* result is the last call: its name, its arguments and what it returned.  *)
(***************************************************************************)
RECURSIVE TotalConns(_, _)
TotalConns(m, S) ==
    IF S = {} THEN 0
    ELSE LET n == CHOOSE x \in S : TRUE
         IN Len(m[n].connections) + TotalConns(m, S \ {n})

\* The state after graph.add_user(User::new(username, bio, interests)).
CallAddUser(m, username, bio, interests) ==
    LET r == add_user(m, UserNew(username, bio, interests))
    IN [members |-> r.members,
        result |-> [op |-> "add_user", args |-> <<username, bio, interests>>,
                    ret |-> r.ret]]

\* The state after graph.connect_users(from, to, kind, tags, since).
CallConnectUsers(m, from, to, kind, tags, since) ==
    LET r == connect_users(m, from, to, kind, tags, since)
    IN [members |-> r.members,
        result |-> [op |-> "connect_users",
                    args |-> <<from, to, kind, tags, since>>, ret |-> r.ret]]

\* The handler tasks that may run at the same time.
Procs == {1, 2}

NoRequest == [op |-> "none", args |-> <<>>]

\* routes(): a fresh mutex, no request in flight.
ServerInit ==
    /\ lock = [holder |-> 0, poisoned |-> FALSE]
    /\ pc = [p \in Procs |-> "idle"]
    /\ req = [p \in Procs |-> NoRequest]
    /\ ret = [p \in Procs |-> Ok(Unit)]
    /\ arrived = 0
    /\ serial = CommunityGraphNew
    /\ expected = [p \in Procs |-> {}]
    /\ absentOnArrival = [p \in Procs |-> FALSE]

Init ==
    /\ members = CommunityGraphNew
    /\ result = [op |-> "new", args |-> <<>>, ret |-> Unit]
    /\ ServerInit

AddUser(username, bio, interests) ==
    LET st == CallAddUser(members, username, bio, interests)
    IN /\ members' = st.members
       /\ result' = st.result
       /\ UNCHANGED srv

ConnectUsers(from, to, kind, tags, since) ==
    LET st == CallConnectUsers(members, from, to, kind, tags, since)
    IN /\ st.result.ret.ok => TotalConns(members, DOMAIN members) < MaxConns
       /\ members' = st.members
       /\ result' = st.result
       /\ UNCHANGED srv

GetUser(username) ==
    /\ result' = [op |-> "get_user", args |-> <<username>>,
                  ret |-> get_user(members, username)]
    /\ UNCHANGED <<members, srv>>

FindUsersByInterest(interest) ==
    /\ \E iter \in Perms(DOMAIN members) :
           result' = [op |-> "find_users_by_interest", args |-> <<interest>>,
                      ret |-> find_users_by_interest(members, interest, iter)]
    /\ UNCHANGED <<members, srv>>

RecommendConnections(username) ==
    /\ \E iter \in Perms(DOMAIN members) :
           result' = [op |-> "recommend_connections", args |-> <<username>>,
                      ret |-> recommend_connections(members, username, iter)]
    /\ UNCHANGED <<members, srv>>

Next ==
    \/ \E u \in NewUsers : AddUser(u.username, u.bio, u.interests)
    \/ \E p \in ConnectPayloads :
           ConnectUsers(p.from, p.to, p.kind, p.tags, p.since)
    \/ \E username \in Names : GetUser(username)
    \/ \E interest \in QueryInterests : FindUsersByInterest(interest)
    \/ \E username \in Names : RecommendConnections(username)

Spec == Init /\ [][Next]_vars

(***************************************************************************)
(* The recommendation heuristic on stores with longer connection lists:    *)
(* the initial states are the stores that adding carol, alice and bob and  *)
(* then connecting alice and bob to carol a and b times leaves, and the    *)
(* only operation is recommend_connections.                                *)
(***************************************************************************)
\* Longest connection list of the stores the heuristic is queried on.
MaxDegree == 5

RECURSIVE ConnectRepeatedly(_, _, _, _)
ConnectRepeatedly(st, from, to, k) ==
    IF k = 0 THEN st
    ELSE ConnectRepeatedly(
             CallConnectUsers(st.members, from, to, "Mentor", <<>>, "2023"),
             from, to, k - 1)

InitHeuristic ==
    \E ua \in {u \in NewUsers : u.username = "alice"},
       ub \in {u \in NewUsers : u.username = "bob"},
       a \in 0..MaxDegree, b \in 0..MaxDegree :
        LET s1 == CallAddUser(CommunityGraphNew, "carol", <<>>, <<"rust">>)
            s2 == CallAddUser(s1.members, ua.username, ua.bio, ua.interests)
            s3 == CallAddUser(s2.members, ub.username, ub.bio, ub.interests)
            s4 == ConnectRepeatedly(s3, "alice", "carol", a)
            s5 == ConnectRepeatedly(s4, "bob", "carol", b)
        IN /\ members = s5.members
           /\ result = s5.result
           /\ ServerInit

NextHeuristic == \E username \in Names : RecommendConnections(username)

SpecHeuristic == InitHeuristic /\ [][NextHeuristic]_vars

(***************************************************************************)
(* routes.rs: the handlers.  Every handler takes the one Mutex, runs its   *)
(* CommunityGraph method inside the closure that owns the guard, and drops *)
(* the guard when the closure returns.  The methods are spelled out step by *)
(* step (one map access per step) so that what keeps two requests from     *)
(* interleaving inside them is the lock and nothing else.                  *)
(***************************************************************************)
\* Most requests the server receives in a run of the model.
MaxRequests == 4

AddUserRequest(u) ==
    [op |-> "add_user", args |-> <<u.username, u.bio, u.interests>>]

ConnectUsersRequest(c) ==
    [op |-> "connect_users", args |-> <<c.from, c.to, c.kind, c.tags, c.since>>]

\* The requests the clients send in the server runs.
ServerRequests ==
    { AddUserRequest(u) : u \in {v \in NewUsers : v.username = "alice"} }
    \cup { AddUserRequest(u) :
               u \in {v \in NewUsers : v.username = "bob" /\ v.bio # <<>>} }
    \cup { ConnectUsersRequest(c) :
               c \in {d \in ConnectPayloads :
                          /\ d.kind = "Mentor"
                          /\ <<d.from, d.to>> \in {<<"alice", "bob">>,
                                                   <<"bob", "alice">>}} }
    \cup { [op |-> "get_user", args |-> <<"alice">>],
           [op |-> "recommend_connections", args |-> <<"alice">>],
           [op |-> "find_users_by_interest", args |-> <<"rust">>] }

InternalError(msg) == [kind |-> "InternalError", arg |-> msg]

\* A lock that never makes its caller wait.
lock_never_blocks(l) == FALSE

\* Mutex::lock makes its caller wait while another task holds the guard.
lock_blocks(l) == l.holder # 0

\* What request r, carried out whole on graph m, may leave and return.
Outcomes(m, r) ==
    CASE r.op = "add_user" ->
             LET o == add_user(m, UserNew(r.args[1], r.args[2], r.args[3]))
             IN {[members |-> o.members, ret |-> o.ret]}
      [] r.op = "connect_users" ->
             LET o == connect_users(m, r.args[1], r.args[2], r.args[3],
                                    r.args[4], r.args[5])
             IN {[members |-> o.members, ret |-> o.ret]}
      [] r.op = "get_user" ->
             {[members |-> m, ret |-> get_user(m, r.args[1])]}
      [] r.op = "recommend_connections" ->
             {[members |-> m, ret |-> recommend_connections(m, r.args[1], iter)] :
                  iter \in Perms(DOMAIN m)}
      [] r.op = "find_users_by_interest" ->
             {[members |-> m,
               ret |-> Ok(find_users_by_interest(m, r.args[1], iter))] :
                  iter \in Perms(DOMAIN m)}

\* The task owns the MutexGuard: it is inside the closure given to and_then.
InsideStore(p) == pc[p] \notin {"idle", "lock", "done"}

\* A request arrives: the handler task starts with the decoded payload.
Receive(p, r) ==
    /\ pc[p] \in {"idle", "done"}
    /\ arrived < MaxRequests
    /\ arrived' = arrived + 1
    /\ req' = [req EXCEPT ![p] = r]
    /\ ret' = [ret EXCEPT ![p] = Ok(Unit)]
    /\ pc' = [pc EXCEPT ![p] = "lock"]
    /\ expected' = [expected EXCEPT ![p] = {}]
    /\ absentOnArrival' =
           [absentOnArrival EXCEPT
                ![p] = r.op = "add_user" /\ ~contains_key(members, r.args[1])]
    /\ UNCHANGED <<members, result, lock, serial>>

\* A handler that takes the guard out of a poisoned mutex and carries on.
Lock_ignores_poison(p) ==
    /\ pc[p] = "lock"
    /\ ~lock_blocks(lock)
    /\ lock' = [lock EXCEPT !.holder = p]
    /\ pc' = [pc EXCEPT ![p] = req[p].op]
    /\ serial' = (CHOOSE o \in Outcomes(serial, req[p]) : TRUE).members
    /\ expected' = [expected EXCEPT
           ![p] = {o.ret : o \in Outcomes(serial, req[p])}]
    /\ UNCHANGED <<ret, members, result, req, arrived, absentOnArrival>>

\* state.lock().map_err(|e| AppError::InternalError(e.to_string())): waits for
\* the mutex; on a poisoned mutex the guard comes back inside the error and
\* is dropped with it, and the handler's result is the InternalError.
Lock(p) ==
    /\ pc[p] = "lock"
    /\ ~lock_blocks(lock)
    /\ IF lock.poisoned
       THEN /\ ret' = [ret EXCEPT ![p] = Err(InternalError(
                           "poisoned lock: another task failed inside"))]
            /\ pc' = [pc EXCEPT ![p] = "done"]
            /\ UNCHANGED <<lock, serial, expected>>
       ELSE /\ lock' = [lock EXCEPT !.holder = p]
            /\ pc' = [pc EXCEPT ![p] = req[p].op]
            /\ serial' = (CHOOSE o \in Outcomes(serial, req[p]) : TRUE).members
            /\ expected' = [expected EXCEPT
                   ![p] = {o.ret : o \in Outcomes(serial, req[p])}]
            /\ UNCHANGED ret
    /\ UNCHANGED <<members, result, req, arrived, absentOnArrival>>

Return(p, r) ==
    /\ ret' = [ret EXCEPT ![p] = r]
    /\ pc' = [pc EXCEPT ![p] = "unlock"]

Frame == UNCHANGED <<result, lock, req, arrived, serial, expected, absentOnArrival>>

\* graph.add_user: the contains_key test.
AddUserCheck(p) ==
    /\ pc[p] = "add_user"
    /\ IF contains_key(members, req[p].args[1])
       THEN Return(p, Err(UserAlreadyExists(req[p].args[1])))
       ELSE pc' = [pc EXCEPT ![p] = "add_user_insert"] /\ UNCHANGED ret
    /\ UNCHANGED members
    /\ Frame

\* graph.add_user: the insert.
AddUserInsert(p) ==
    /\ pc[p] = "add_user_insert"
    /\ members' = insert(members, req[p].args[1],
                         UserNew(req[p].args[1], req[p].args[2], req[p].args[3]))
    /\ Return(p, Ok(Unit))
    /\ Frame

\* connect_users without its test of `from`.
ConnectCheckFrom_skipped(p) ==
    /\ pc[p] = "connect_users"
    /\ pc' = [pc EXCEPT ![p] = "connect_users_to"]
    /\ UNCHANGED <<ret, members>>
    /\ Frame

\* graph.connect_users: the test of `from`.
ConnectCheckFrom(p) ==
    /\ pc[p] = "connect_users"
    /\ IF ~contains_key(members, req[p].args[1])
       THEN Return(p, Err(UserNotFound(req[p].args[1])))
       ELSE pc' = [pc EXCEPT ![p] = "connect_users_to"] /\ UNCHANGED ret
    /\ UNCHANGED members
    /\ Frame

\* graph.connect_users: the test of `to`.
ConnectCheckTo(p) ==
    /\ pc[p] = "connect_users_to"
    /\ IF ~contains_key(members, req[p].args[2])
       THEN Return(p, Err(UserNotFound(req[p].args[2])))
       ELSE pc' = [pc EXCEPT ![p] = "connect_users_push"] /\ UNCHANGED ret
    /\ UNCHANGED members
    /\ Frame

\* graph.connect_users: get_mut(from) and the push, or ConnectionFailed.
ConnectPush(p) ==
    /\ pc[p] = "connect_users_push"
    /\ LET a == req[p].args
           connection == [to_username |-> a[2], kind |-> a[3], since |-> a[5],
                          tags |-> a[4]]
       IN IF a[1] \in DOMAIN members
          THEN /\ members' = [members EXCEPT ![a[1]] = add_connection(@, connection)]
               /\ Return(p, Ok(Unit))
          ELSE /\ UNCHANGED members
               /\ Return(p, Err(ConnectionFailed(a[1], a[2])))
    /\ Frame

\* graph.get_user(&username).map(|user| user.clone())
GetUserLocked(p) ==
    /\ pc[p] = "get_user"
    /\ Return(p, get_user(members, req[p].args[1]))
    /\ UNCHANGED members
    /\ Frame

\* graph.recommend_connections(&username)
RecommendLocked(p) ==
    /\ pc[p] = "recommend_connections"
    /\ \E iter \in Perms(DOMAIN members) :
           Return(p, recommend_connections(members, req[p].args[1], iter))
    /\ UNCHANGED members
    /\ Frame

\* graph.find_users_by_interest(&interest), cloned, inside .map(..)
FindLocked(p) ==
    /\ pc[p] = "find_users_by_interest"
    /\ \E iter \in Perms(DOMAIN members) :
           Return(p, Ok(find_users_by_interest(members, req[p].args[1], iter)))
    /\ UNCHANGED members
    /\ Frame

\* A handler that lets go of the guard only when its result is Ok.
Unlock_keeps_guard_on_error(p) ==
    /\ pc[p] = "unlock"
    /\ lock' = IF ret[p].ok THEN [lock EXCEPT !.holder = 0] ELSE lock
    /\ pc' = [pc EXCEPT ![p] = "done"]
    /\ UNCHANGED <<members, result, req, ret, arrived, serial, expected,
                   absentOnArrival>>

\* The closure returns: the guard is dropped and the response is built.
Unlock(p) ==
    /\ pc[p] = "unlock"
    /\ lock' = [lock EXCEPT !.holder = 0]
    /\ pc' = [pc EXCEPT ![p] = "done"]
    /\ UNCHANGED <<members, result, req, ret, arrived, serial, expected,
                   absentOnArrival>>

NextServer ==
    \/ \E p \in Procs, r \in ServerRequests : Receive(p, r)
    \/ \E p \in Procs : Lock(p)
    \/ \E p \in Procs : AddUserCheck(p)
    \/ \E p \in Procs : AddUserInsert(p)
    \/ \E p \in Procs : ConnectCheckFrom(p)
    \/ \E p \in Procs : ConnectCheckTo(p)
    \/ \E p \in Procs : ConnectPush(p)
    \/ \E p \in Procs : GetUserLocked(p)
    \/ \E p \in Procs : RecommendLocked(p)
    \/ \E p \in Procs : FindLocked(p)
    \/ \E p \in Procs : Unlock(p)

SpecServer == Init /\ [][NextServer]_vars

\* A task unwinds while it owns the guard: std's Mutex is released and
\* marked poisoned, the task is gone and its request gets no answer.  No
\* line of graph.rs panics on the stores of this model; the step stands for
\* the failure the map_err of every handler is written for.
Panic(p) ==
    /\ InsideStore(p)
    /\ lock' = [holder |-> 0, poisoned |-> TRUE]
    /\ pc' = [pc EXCEPT ![p] = "idle"]
    /\ req' = [req EXCEPT ![p] = NoRequest]
    /\ UNCHANGED <<members, result, ret, arrived, serial, expected,
                   absentOnArrival>>

NextServerFaulty ==
    \/ NextServer
    \/ \E p \in Procs : Panic(p)

\* The server with a holder of the lock allowed to panic.
SpecServerFaulty == Init /\ [][NextServerFaulty]_vars

\* What a handler task does once its request is decoded, up to the response.
HandlerStep(p) ==
    \/ AddUserCheck(p) \/ AddUserInsert(p)
    \/ ConnectCheckFrom(p) \/ ConnectCheckTo(p) \/ ConnectPush(p)
    \/ GetUserLocked(p) \/ RecommendLocked(p) \/ FindLocked(p)
    \/ Unlock(p)

\* The runtime keeps running every handler task: a task that can take a step
\* of its handler takes it, and a task left waiting at a free mutex gets it.
\* Clients are free to send nothing.
SpecServerFair ==
    /\ SpecServer
    /\ \A p \in Procs : WF_vars(Lock(p)) /\ WF_vars(HandlerStep(p))

(***************************************************************************)
(* Properties of the store (checked under Spec).  In Spec every step that  *)
(* changes the state is one call, and result' names that call.             *)
(***************************************************************************)
IsCall(r, op) == r.op = op

\* C1: an add_user call whose username is not yet in the store returns
\* success; get_user of that name then returns exactly the username, bio and
\* interests passed, with no connections; and the records get_user returns
\* for the names added before are the same as before the call.
C1_AddDistinctUsers ==
    [][ (IsCall(result', "add_user") /\ result'.args[1] \notin DOMAIN members) =>
            /\ result'.ret = [ok |-> TRUE, value |-> <<>>]
            /\ get_user(members', result'.args[1]) =
                   [ok |-> TRUE,
                    value |-> [username |-> result'.args[1],
                               bio |-> result'.args[2],
                               interests |-> result'.args[3],
                               connections |-> <<>>]]
            /\ \A n \in DOMAIN members :
                   get_user(members', n) = get_user(members, n) ]_vars

\* C1 witness: three add_user calls with distinct names have succeeded and
\* the store holds the three profiles as sent.
C1_Witness ==
    /\ IsCall(result, "add_user") /\ result.ret.ok
    /\ DOMAIN members = Names
    /\ \A n \in Names : /\ get_user(members, n).ok
                        /\ get_user(members, n).value.connections = <<>>
                        /\ \E u \in NewUsers :
                               /\ u.username = n
                               /\ get_user(members, n).value.bio = u.bio
                               /\ get_user(members, n).value.interests = u.interests
    /\ members[result.args[1]].bio = result.args[2]
    /\ result.args[2] # <<>>

\* C2: an add_user call whose username is already in the store fails with
\* UserAlreadyExists carrying that username and changes no record.
C2_DuplicateAddFails ==
    [][ (IsCall(result', "add_user") /\ result'.args[1] \in DOMAIN members) =>
            /\ result'.ret = [ok |-> FALSE,
                              err |-> [kind |-> "UserAlreadyExists",
                                       arg |-> result'.args[1]]]
            /\ members' = members ]_vars

\* C2 witness: an add_user for a present name, sent with another bio and
\* other interests than the stored ones, was rejected, and the stored record
\* still has the connection it had accumulated.
C2_Witness ==
    /\ IsCall(result, "add_user") /\ ~result.ret.ok
    /\ result.ret.err.kind = "UserAlreadyExists"
    /\ result.args[1] \in DOMAIN members
    /\ members[result.args[1]].bio # result.args[2]
    /\ members[result.args[1]].interests # result.args[3]
    /\ members[result.args[1]].connections # <<>>

\* C3: connect_users fails with UserNotFound(from) whenever from is absent
\* (whether or not to exists), and with UserNotFound(to) when from exists
\* and to is absent.
C3_ConnectNotFoundOrder ==
    [][ IsCall(result', "connect_users") =>
            LET from == result'.args[1]
                to == result'.args[2]
            IN /\ from \notin DOMAIN members =>
                      result'.ret = [ok |-> FALSE,
                                     err |-> [kind |-> "UserNotFound", arg |-> from]]
               /\ (from \in DOMAIN members /\ to \notin DOMAIN members) =>
                      result'.ret = [ok |-> FALSE,
                                     err |-> [kind |-> "UserNotFound", arg |-> to]] ]_vars

\* C3 witness: a connect_users call between two different names, of which
\* only `to` is in the store, failed naming `from`.
C3_Witness ==
    /\ IsCall(result, "connect_users") /\ ~result.ret.ok
    /\ result.args[1] # result.args[2]
    /\ result.args[1] \notin DOMAIN members
    /\ result.args[2] \in DOMAIN members
    /\ result.ret.err = [kind |-> "UserNotFound", arg |-> result.args[1]]

ConnectionOf(args) ==
    [to_username |-> args[2], kind |-> args[3], tags |-> args[4], since |-> args[5]]

\* C4 as stated: after a successful connect_users(from, to, ...) from's list
\* is its previous list with the one entry appended and to's list is
\* unchanged, for every existing from and to.
C4_Original ==
    [][ (IsCall(result', "connect_users") /\ result'.ret.ok) =>
            LET from == result'.args[1]
                to == result'.args[2]
            IN /\ members'[from].connections =
                      Append(members[from].connections, ConnectionOf(result'.args))
               /\ members'[to].connections = members[to].connections ]_vars

\* C4 amended: after a successful connect_users(from, to, ...) from's list
\* is its previous list with the one entry {to, kind, tags, since} appended,
\* and to's list is unchanged whenever to is another user than from.
C4_ConnectAppendsToFromOnly ==
    [][ (IsCall(result', "connect_users") /\ result'.ret.ok) =>
            LET from == result'.args[1]
                to == result'.args[2]
            IN /\ members'[from].connections =
                      Append(members[from].connections, ConnectionOf(result'.args))
               /\ to # from =>
                      members'[to].connections = members[to].connections ]_vars

\* C4 witness: a successful connect_users between two different users has
\* appended its entry behind an earlier one, and `to` has no edge back.
C4_Witness ==
    /\ IsCall(result, "connect_users") /\ result.ret.ok
    /\ result.args[1] # result.args[2]
    /\ Len(members[result.args[1]].connections) = 2
    /\ members[result.args[1]].connections[2] = ConnectionOf(result.args)
    /\ members[result.args[1]].connections[1] # ConnectionOf(result.args)
    /\ members[result.args[2]].connections = <<>>

Recommendations == result.ret.value

Shared(u, c) == Range(members[u].interests) \cap Range(members[c].interests)

\* C5: the list recommend_connections(u) returns for an existing user u
\* contains neither u nor any to_username of u's outgoing connections.
C5_NeverSelfNorConnected ==
    (IsCall(result, "recommend_connections") /\ result.ret.ok) =>
        LET u == result.args[1]
        IN \A i \in DOMAIN Recommendations :
               /\ Recommendations[i].username # u
               /\ \A j \in DOMAIN members[u].connections :
                      Recommendations[i].username #
                          members[u].connections[j].to_username

\* C5 witness: recommend_connections(u) returned a non-empty list while u
\* has an outgoing connection to another user it shares an interest with.
C5_Witness ==
    /\ IsCall(result, "recommend_connections") /\ result.ret.ok
    /\ Recommendations # <<>>
    /\ \E j \in DOMAIN members[result.args[1]].connections :
           LET c == members[result.args[1]].connections[j].to_username
           IN c # result.args[1] /\ Shared(result.args[1], c) # {}

\* The suggested type by the rules of C6, from the store alone.
RuleType(u, c) ==
    IF Cardinality(Shared(u, c)) > 3 THEN "ProjectBuddy"
    ELSE IF Len(members[c].connections) > 2 * Len(members[u].connections)
    THEN "Mentor"
    ELSE IF Len(members[u].connections) > 2 * Len(members[c].connections)
    THEN "Follower"
    ELSE "Collaborator"

\* C6: every record of recommend_connections(U) carries, for its candidate
\* C, the type of the first matching rule: ProjectBuddy if more than 3
\* distinct interests are shared, else Mentor if C's connection count exceeds
\* twice U's, else Follower if U's exceeds twice C's, else Collaborator; the
\* counts are the lengths of the two lists in the store queried.
C6_TypeByFirstMatchingRule ==
    (IsCall(result, "recommend_connections") /\ result.ret.ok) =>
        \A i \in DOMAIN Recommendations :
            Recommendations[i].connection_type =
                RuleType(result.args[1], Recommendations[i].username)

\* C6 witness: a candidate sharing 4 interests and holding more than twice
\* the subject's (non-zero) number of connections was suggested as
\* ProjectBuddy.
C6_Witness ==
    /\ IsCall(result, "recommend_connections") /\ result.ret.ok
    /\ \E i \in DOMAIN Recommendations :
           LET u == result.args[1]
               c == Recommendations[i].username
           IN /\ Recommendations[i].connection_type = "ProjectBuddy"
              /\ Cardinality(Shared(u, c)) = 4
              /\ Len(members[u].connections) = 1
              /\ Len(members[c].connections) = 3

\* C7: in the list recommend_connections returns, each record has at least
\* as many shared interests as the record after it.
C7_SortedByShared ==
    (IsCall(result, "recommend_connections") /\ result.ret.ok) =>
        \A i \in DOMAIN Recommendations :
            i > 1 =>
                BagCardinality(Recommendations[i - 1].shared_interests) >=
                    BagCardinality(Recommendations[i].shared_interests)

\* C7 witness: a list of two records, the first with strictly more shared
\* interests than the second.
C7_Witness ==
    /\ IsCall(result, "recommend_connections") /\ result.ret.ok
    /\ Len(Recommendations) = 2
    /\ BagCardinality(Recommendations[1].shared_interests) >
           BagCardinality(Recommendations[2].shared_interests)

\* C8: find_users_by_interest(I) returns the stored users whose interest
\* list has an entry equal to I, each once and no other user; the empty list
\* when there is none.
C8_FindExactlyMatching ==
    IsCall(result, "find_users_by_interest") =>
        LET interest == result.args[1]
            matching == {n \in DOMAIN members :
                            interest \in Range(members[n].interests)}
        IN /\ Range(result.ret) = {members[n] : n \in matching}
           /\ Len(result.ret) = Cardinality(matching)
           /\ matching = {} => result.ret = <<>>

\* C8 witness: find_users_by_interest("rust") returned two users, one of
\* them listing "rust" twice, and left out a stored user that lists "Rust".
C8_Witness ==
    /\ IsCall(result, "find_users_by_interest")
    /\ result.args[1] = "rust"
    /\ Len(result.ret) = 2
    /\ \E i \in DOMAIN result.ret :
           Cardinality({k \in DOMAIN result.ret[i].interests :
                            result.ret[i].interests[k] = "rust"}) = 2
    /\ \E n \in DOMAIN members :
           /\ "Rust" \in Range(members[n].interests)
           /\ \A i \in DOMAIN result.ret : result.ret[i].username # n

(***************************************************************************)
(* Properties of the handlers (checked under SpecServer).                  *)
(***************************************************************************)
\* The task is inside its CommunityGraph method or about to leave it.
InStore(p) == pc[p] \notin {"idle", "lock", "done"}

AddedBy(p, name) == pc[p] = "done" /\ req[p].op = "add_user" /\ req[p].args[1] = name

\* C9: the existence check and the insert of add_user are one atomic step
\* (between a task's check and its insert the name stays absent), and of two
\* add_user requests for one username that both arrived while the name was
\* absent exactly one succeeds, the other fails with UserAlreadyExists of
\* that name, and the stored record is the one the successful request sent.
C9_ConcurrentAddOnce ==
    /\ \A p \in Procs :
           pc[p] = "add_user_insert" => req[p].args[1] \notin DOMAIN members
    /\ \A p \in Procs : \A q \in Procs \ {p} :
           \A name \in Names :
               ( /\ AddedBy(p, name) /\ AddedBy(q, name)
                 /\ absentOnArrival[p] /\ absentOnArrival[q]
                 /\ ret[p].ok ) =>
                   /\ ret[q] = [ok |-> FALSE,
                                err |-> [kind |-> "UserAlreadyExists",
                                         arg |-> name]]
                   /\ name \in DOMAIN members
                   /\ members[name].username = name
                   /\ members[name].bio = req[p].args[2]
                   /\ members[name].interests = req[p].args[3]
    /\ \A p \in Procs : \A q \in Procs \ {p} :
           \A name \in Names :
               ( /\ AddedBy(p, name) /\ AddedBy(q, name)
                 /\ absentOnArrival[p] /\ absentOnArrival[q] ) =>
                   ret[p].ok \/ ret[q].ok

\* C9 witness: two add_user requests for the same absent username with
\* different profiles were in flight together and both have been answered.
C9_Witness ==
    \E p \in Procs : \E q \in Procs \ {p} :
        \E name \in Names :
            /\ AddedBy(p, name) /\ AddedBy(q, name)
            /\ absentOnArrival[p] /\ absentOnArrival[q]
            /\ req[p].args[2] # req[q].args[2]
            /\ ret[p].ok /\ ~ret[q].ok

\* C10: a task is inside a store operation only while it holds the lock, so
\* at most one task is inside at a time; and the requests behave as if
\* carried out whole, one after the other, in the order they took the lock:
\* whenever the lock is free the store is the store of that serial run, and
\* every answered request returned what it returns in that serial run.
C10_MutualExclusionSerial ==
    /\ \A p \in Procs : InStore(p) => lock.holder = p
    /\ Cardinality({p \in Procs : InStore(p)}) <= 1
    /\ lock.holder = 0 => members = serial
    /\ \A p \in Procs :
           (pc[p] \in {"unlock", "done"} /\ req[p].op # "none") =>
               ret[p] \in expected[p]

\* C10 witness: one task is between the checks and the push of a
\* connect_users while the other waits for the lock with an add_user, after
\* earlier requests have been answered.
C10_Witness ==
    \E p \in Procs : \E q \in Procs \ {p} :
        /\ pc[p] = "connect_users_push"
        /\ pc[q] = "lock"
        /\ req[q].op = "add_user"
        /\ lock.holder = p
        /\ DOMAIN members = {"alice", "bob"}

\* C11: every request that waits for the lock eventually holds it and is
\* answered with the lock released by it, whatever the requests before it
\* returned (error returns included).
C11_LockReleasedOnEveryExit ==
    \A p \in Procs :
        (pc[p] = "lock") ~> (pc[p] = "done" /\ lock.holder # p)

\* C11 witness: a request has been answered with an error and the other task
\* holds the lock inside its operation.
C11_Witness ==
    \E p \in Procs : \E q \in Procs \ {p} :
        /\ pc[p] = "done" /\ req[p].op # "none" /\ ~ret[p].ok
        /\ InStore(q) /\ lock.holder = q

\* C12: once the lock is poisoned, a request that asks for it is answered
\* with InternalError and nothing else, no task is inside a store operation
\* and the store is left as it is.
C12_PoisonedLockInternalError ==
    [][ lock.poisoned =>
            /\ members' = members
            /\ \A p \in Procs :
                   /\ pc'[p] \in {"idle", "lock", "done"}
                   /\ (pc[p] = "lock" /\ pc'[p] # "lock") =>
                          /\ pc'[p] = "done"
                          /\ ~ret'[p].ok
                          /\ ret'[p].err.kind = "InternalError" ]_vars

\* C12 witness: with the lock poisoned and users in the store, a
\* find_users_by_interest request (which has no error of its own) was
\* answered with InternalError, and so was the other task's request.
C12_Witness ==
    /\ lock.poisoned
    /\ DOMAIN members # {}
    /\ \E p \in Procs : \E q \in Procs \ {p} :
           /\ pc[p] = "done" /\ req[p].op = "find_users_by_interest"
           /\ ~ret[p].ok /\ ret[p].err.kind = "InternalError"
           /\ pc[q] = "done" /\ req[q].op = "add_user"
           /\ ~ret[q].ok /\ ret[q].err.kind = "InternalError"

(***************************************************************************)
(* Further properties of the store (checked under Spec).                   *)
(***************************************************************************)
IsPrefix(a, b) == Len(a) <= Len(b) /\ SubSeq(b, 1, Len(a)) = a

\* C13: every Connection stored on a user names, as to_username, a user that
\* is in the store, and sits on a record stored under its owner's username.
C13_NoDanglingEdge ==
    \A n \in DOMAIN members :
        /\ members[n].username = n
        /\ \A i \in DOMAIN members[n].connections :
               members[n].connections[i].to_username \in DOMAIN members

\* C13 witness: a store of three users in which one user has edges to the
\* two others, the second just created.
C13_Witness ==
    /\ DOMAIN members = Names
    /\ \E n \in Names :
           {members[n].connections[i].to_username :
                i \in DOMAIN members[n].connections} = Names \ {n}
    /\ IsCall(result, "connect_users") /\ result.ret.ok

\* C14: in every step each stored user stays stored and its connection list
\* before the step is a prefix of its list after the step.
C14_ConnectionsAppendOnly ==
    [][ \A n \in DOMAIN members :
            /\ n \in DOMAIN members'
            /\ IsPrefix(members[n].connections, members'[n].connections) ]_vars

\* C14 witness: a second, different connection has been appended to a list.
C14_Witness ==
    /\ IsCall(result, "connect_users") /\ result.ret.ok
    /\ \E n \in DOMAIN members :
           /\ Len(members[n].connections) = 2
           /\ members[n].connections[1].to_username #
                  members[n].connections[2].to_username
           /\ members[n].connections[2].to_username = n

\* C15: in every step each stored user stays stored with the same username,
\* bio and interests, get_user of its name succeeds and returns them, and a
\* user a step adds carries the username, bio and interests given to
\* add_user; so the connection list is the only field a step changes.
C15_UsersPermanent ==
    [][ /\ \A n \in DOMAIN members :
               /\ get_user(members', n).ok
               /\ get_user(members', n).value.username = members[n].username
               /\ get_user(members', n).value.bio = members[n].bio
               /\ get_user(members', n).value.interests = members[n].interests
        /\ \A n \in (DOMAIN members') \ DOMAIN members :
               /\ IsCall(result', "add_user")
               /\ result'.args = <<members'[n].username, members'[n].bio,
                                   members'[n].interests>>
               /\ n = members'[n].username ]_vars

\* C15 witness: get_user returned a stored user with a bio and a connection.
C15_Witness ==
    /\ IsCall(result, "get_user") /\ result.ret.ok
    /\ result.ret.value.bio # <<>>
    /\ result.ret.value.connections # <<>>
    /\ result.ret.value = members[result.args[1]]

\* C16: an add_user or connect_users call that returns an error leaves the
\* store as it was, and get_user, find_users_by_interest and
\* recommend_connections leave it as it was whatever they return.
C16_NoPartialEffect ==
    [][ /\ ( /\ result'.op \in {"add_user", "connect_users"}
             /\ ~result'.ret.ok ) => members' = members
        /\ result'.op \in {"get_user", "find_users_by_interest",
                           "recommend_connections"} => members' = members ]_vars

\* C16 witness: a connect_users from a stored user that already has a
\* connection to a user not in the store has failed.
C16_Witness ==
    /\ IsCall(result, "connect_users") /\ ~result.ret.ok
    /\ result.args[1] \in DOMAIN members
    /\ result.args[2] \notin DOMAIN members
    /\ members[result.args[1]].connections # <<>>

\* C17: get_user(name) and recommend_connections(name) succeed exactly when
\* name is in the store, and otherwise fail with UserNotFound carrying name.
C17_NotFoundIffAbsent ==
    result.op \in {"get_user", "recommend_connections"} =>
        LET name == result.args[1]
        IN /\ result.ret.ok <=> name \in DOMAIN members
           /\ name \notin DOMAIN members =>
                  result.ret = [ok |-> FALSE,
                                err |-> [kind |-> "UserNotFound", arg |-> name]]

\* C17 witness: recommend_connections on the empty store failed with
\* UserNotFound.
C17_Witness ==
    /\ IsCall(result, "recommend_connections")
    /\ DOMAIN members = {}
    /\ ~result.ret.ok

\* Users the subject u has an outgoing connection to.
ConnectedTo(u) ==
    {members[u].connections[i].to_username : i \in DOMAIN members[u].connections}

\* C18: recommend_connections(u) returns one record for each stored user c
\* other than u that u has no outgoing connection to and shares an interest
\* with, and no other record (a connection from c to u does not matter);
\* each record lists every shared interest, and each once.
C18_ExactlyTheCandidates ==
    (IsCall(result, "recommend_connections") /\ result.ret.ok) =>
        LET u == result.args[1]
            candidates == {c \in DOMAIN members :
                               /\ c # u
                               /\ c \notin ConnectedTo(u)
                               /\ Shared(u, c) # {}}
        IN /\ {Recommendations[i].username : i \in DOMAIN Recommendations}
                  = candidates
           /\ Len(Recommendations) = Cardinality(candidates)
           /\ \A i \in DOMAIN Recommendations :
                  LET b == Recommendations[i].shared_interests
                  IN /\ BagToSet(b) = Shared(u, Recommendations[i].username)
                     /\ \A x \in BagToSet(b) : CopiesIn(x, b) = 1

\* C18 witness: the subject lists an interest twice, and a user that has a
\* connection to the subject is recommended with two shared interests.
C18_Witness ==
    /\ IsCall(result, "recommend_connections") /\ result.ret.ok
    /\ Len(members[result.args[1]].interests) >
           Cardinality(Range(members[result.args[1]].interests))
    /\ \E i \in DOMAIN Recommendations :
           /\ result.args[1] \in ConnectedTo(Recommendations[i].username)
           /\ BagCardinality(Recommendations[i].shared_interests) = 2

\* C19: when a connect_users reaches its get_mut(from), from is in the
\* store, so the call never returns ConnectionFailed: every connect_users
\* request, alone or next to another task's requests, ends in success or in
\* UserNotFound.
C19_ConnectionFailedUnreachable ==
    \A p \in Procs :
        /\ pc[p] = "connect_users_push" => req[p].args[1] \in DOMAIN members
        /\ (req[p].op = "connect_users" /\ pc[p] \in {"unlock", "done"}) =>
               \/ ret[p] = [ok |-> TRUE, value |-> <<>>]
               \/ /\ ~ret[p].ok
                  /\ ret[p].err.kind = "UserNotFound"
                  /\ ret[p].err.arg \in {req[p].args[1], req[p].args[2]}

\* C19 witness: both tasks have had a connect_users answered, one with
\* success and one with UserNotFound.
C19_Witness ==
    \E p \in Procs : \E q \in Procs \ {p} :
        /\ pc[p] = "done" /\ req[p].op = "connect_users" /\ ret[p].ok
        /\ pc[q] = "done" /\ req[q].op = "connect_users" /\ ~ret[q].ok

ConnLen(m, n) == IF n \in DOMAIN m THEN Len(m[n].connections) ELSE 0

\* C20: connect_users succeeds for every pair of stored usernames, a user
\* with itself and an already connected pair included, and appends; a
\* user's connection list grows by one in exactly the steps that are a
\* successful connect_users with that user as from, starting from length 0,
\* so its length is the number of such calls; and the type
\* recommend_connections suggests is computed from these lengths as they
\* are, self-edges and duplicates counted.
C20_LengthCountsSuccessfulConnects ==
    [][ /\ ( /\ IsCall(result', "connect_users")
             /\ result'.args[1] \in DOMAIN members
             /\ result'.args[2] \in DOMAIN members ) =>
                 result'.ret = [ok |-> TRUE, value |-> <<>>]
        /\ \A n \in DOMAIN members' :
               ConnLen(members', n) =
                   ConnLen(members, n) +
                       ( IF /\ IsCall(result', "connect_users")
                            /\ result'.ret.ok
                            /\ result'.args[1] = n
                         THEN 1 ELSE 0 )
        /\ (IsCall(result', "recommend_connections") /\ result'.ret.ok) =>
               \A i \in DOMAIN result'.ret.value :
                   LET u == result'.args[1]
                       c == result'.ret.value[i].username
                   IN result'.ret.value[i].connection_type =
                          IF Cardinality(Shared(u, c)) > 3 THEN "ProjectBuddy"
                          ELSE IF ConnLen(members, c) > 2 * ConnLen(members, u)
                          THEN "Mentor"
                          ELSE IF ConnLen(members, u) > 2 * ConnLen(members, c)
                          THEN "Follower"
                          ELSE "Collaborator" ]_vars

\* C20 witness: a user has connected to itself twice with the same payload,
\* and both entries are in its list.
C20_Witness ==
    /\ IsCall(result, "connect_users") /\ result.ret.ok
    /\ result.args[1] = result.args[2]
    /\ Len(members[result.args[1]].connections) = 2
    /\ members[result.args[1]].connections[1] =
           members[result.args[1]].connections[2]

\* The type the heuristic suggests for candidate c to subject u in the
\* current store.
SuggestedType(u, c) == recommend_connection_type(members[u], members[c])

\* The type that mirrors t when subject and candidate are swapped.
Dual(t) ==
    CASE t = "Mentor" -> "Follower"
      [] t = "Follower" -> "Mentor"
      [] OTHER -> t

\* C21: in any store state and for any two users U and C, the type suggested
\* for C to U is Mentor exactly when the type suggested for U to C is
\* Follower, it is Collaborator (ProjectBuddy) exactly when the type in the
\* other direction is Collaborator (ProjectBuddy) too, and Mentor is never
\* suggested in both directions; so every record recommend_connections(U)
\* returns carries the dual of what C would be told about U.
C21_SuggestedTypeDual ==
    /\ \A u \in DOMAIN members : \A c \in DOMAIN members :
           /\ (SuggestedType(u, c) = "Mentor") <=>
                  (SuggestedType(c, u) = "Follower")
           /\ (SuggestedType(u, c) = "Collaborator") <=>
                  (SuggestedType(c, u) = "Collaborator")
           /\ (SuggestedType(u, c) = "ProjectBuddy") <=>
                  (SuggestedType(c, u) = "ProjectBuddy")
           /\ ~(SuggestedType(u, c) = "Mentor" /\ SuggestedType(c, u) = "Mentor")
    /\ (IsCall(result, "recommend_connections") /\ result.ret.ok) =>
           \A i \in DOMAIN Recommendations :
               Recommendations[i].connection_type =
                   Dual(SuggestedType(Recommendations[i].username,
                                      result.args[1]))

\* C21 witness: recommend_connections(U) returned a record suggesting C as
\* Mentor while both users hold connections, and the store suggests U to C
\* as Follower.
C21_Witness ==
    /\ IsCall(result, "recommend_connections") /\ result.ret.ok
    /\ \E i \in DOMAIN Recommendations :
           LET u == result.args[1]
               c == Recommendations[i].username
           IN /\ Recommendations[i].connection_type = "Mentor"
              /\ SuggestedType(c, u) = "Follower"
              /\ Len(members[u].connections) > 0
              /\ Len(members[c].connections) > 2 * Len(members[u].connections)

=============================================================================
